---- MODULE Spec2Model ----
(***************************************************************************)
(* Model of aws-free.py: a command-line manager for one EC2 free-tier      *)
(* instance.  The provider (instances, security groups, key pairs, image   *)
(* catalog) and the ~/.ssh directory are the persistent state; every       *)
(* invocation of the tool is a process that walks through main() and the   *)
(* controller it dispatches to, one provider request per step.             *)
(***************************************************************************)
EXTENDS Integers, Sequences, FiniteSets, TLC

VARIABLES
    instances,   \* provider: sequence of instance records, id = index
    groups,      \* provider: sequence of security groups, id = index
    keyPairs,    \* provider: set of registered key pairs [name, material]
    catalog,     \* provider: sequence of images of the publisher account
    files,       \* ~/.ssh: set of file records [name, kind, perm, material]
    keygens,     \* number of key pairs ssh-keygen has generated so far
    runs,        \* number of invocations still to be started
    pc,          \* pc[p]: position of invocation p
    loc,         \* loc[p]: local variables of invocation p
    hist,        \* hist[p]: what invocation p has requested so far
    sgReturned,  \* the group ids the provisioning step has returned so far
    amiOut       \* result of the stand-alone image resolution

vars == <<instances, groups, keyPairs, catalog, files, keygens, runs,
          pc, loc, hist, sgReturned, amiOut>>

(***************************************************************************)
(* Bounds                                                                  *)
(***************************************************************************)
MaxRuns == 2        \* invocations per behaviour, one after another
PairRuns == 2       \* invocations per behaviour when two may run at once
MaxInstances == 3   \* instances the account may hold (provider limit)
MaxInit == 2        \* instances present before the first invocation
MaxArgs == 2        \* command-line arguments after the script name
MaxImages == 3      \* images in the catalog
MaxDate == 2        \* distinct creation dates

Procs == {1, 2}

(***************************************************************************)
(* Text: a string is a sequence of one-character strings.                  *)
(***************************************************************************)
UpperChars == <<"A","B","C","D","E","F","G","H","I","J","K","L","M",
                "N","O","P","Q","R","S","T","U","V","W","X","Y","Z">>
LowerChars == <<"a","b","c","d","e","f","g","h","i","j","k","l","m",
                "n","o","p","q","r","s","t","u","v","w","x","y","z">>
DigitChars == <<"0","1","2","3","4","5","6","7","8","9">>
SpaceChars == {" ", "\t"}

IndexIn(c, s) == CHOOSE i \in 1..Len(s) : s[i] = c
IsIn(c, s) == \E i \in 1..Len(s) : s[i] = c

\* str.lower()
LowerChar(c) == IF IsIn(c, UpperChars) THEN LowerChars[IndexIn(c, UpperChars)] ELSE c
Lower(s) == [i \in 1..Len(s) |-> LowerChar(s[i])]

\* str.strip()
RECURSIVE LStrip(_)
LStrip(s) == IF s # <<>> /\ Head(s) \in SpaceChars THEN LStrip(Tail(s)) ELSE s
RECURSIVE RStrip(_)
RStrip(s) ==
    IF s # <<>> /\ s[Len(s)] \in SpaceChars THEN RStrip(SubSeq(s, 1, Len(s) - 1)) ELSE s
Strip(s) == RStrip(LStrip(s))

\* int(str): [ok |-> FALSE] stands for ValueError
RECURSIVE DigitsValue(_)
DigitsValue(s) ==
    IF s = <<>> THEN 0
    ELSE 10 * DigitsValue(SubSeq(s, 1, Len(s) - 1)) + (IndexIn(s[Len(s)], DigitChars) - 1)
AllDigits(s) == s # <<>> /\ \A i \in 1..Len(s) : IsIn(s[i], DigitChars)
ParseInt(raw) ==
    LET s == Strip(raw)
        signed == s # <<>> /\ Head(s) \in {"+", "-"}
        body == IF signed THEN Tail(s) ELSE s
    IN  IF AllDigits(body)
        THEN [ok |-> TRUE,
              val |-> IF signed /\ Head(s) = "-" THEN 0 - DigitsValue(body)
                      ELSE DigitsValue(body)]
        ELSE [ok |-> FALSE, val |-> 0]

\* end of input on a prompt: input() raises EOFError
EOF == <<"<EOF>">>
\* no prompt was shown
NoLine == <<"<none>">>

W_list == <<"l","i","s","t">>
W_create == <<"c","r","e","a","t","e">>
W_delete == <<"d","e","l","e","t","e">>
W_ssh == <<"s","s","h">>
W_key == <<"k","e","y">>
W_web == <<"w","e","b">>
W_instances == <<"i","n","s","t","a","n","c","e","s">>
W_console == <<"c","o","n","s","o","l","e">>
W_dashboard == <<"d","a","s","h","b","o","a","r","d">>
W_help == <<"h","e","l","p">>
W_h == <<"-","h">>
W_longhelp == <<"-","-","h","e","l","p">>

\* the names the tool uses
DefaultKey == <<"a","w","s","_","e","c","2","_","f","r","e","e">>
SgName == <<"e","c","2","-","f","r","e","e","-","t","i","e","r","-","s","g">>
ManagedType == "t3.micro"
OtherType == "t2.micro"

NoKey == <<>>      \* key_name None or '': both are falsy
NoId == 0

(***************************************************************************)
(* Image resolution                                                        *)
(***************************************************************************)
\* the three name patterns, in the order they are tried; an image's family
\* is the pattern its name matches ("other": a name none of them matches)
Patterns == <<"gp3-noble-24.04", "ssd-noble-24.04", "ssd-jammy-22.04">>
Families == {Patterns[k] : k \in 1..Len(Patterns)} \cup {"other"}
Images == [family : Families, date : 1..MaxDate]

\* describe_images with the name filter: the ids of the matching images in
\* the provider's order
DescribeImages(cat, pattern) ==
    SelectSeq([i \in 1..Len(cat) |-> i], LAMBDA i : cat[i].family = pattern)

\* sorted(..., key=CreationDate, reverse=True): a stable sort, so images of
\* equal date keep the provider's order
RECURSIVE InsertByDate(_, _, _)
InsertByDate(x, s, cat) ==
    IF s = <<>> THEN <<x>>
    ELSE IF cat[Head(s)].date >= cat[x].date
         THEN <<Head(s)>> \o InsertByDate(x, Tail(s), cat)
         ELSE <<x>> \o s
RECURSIVE SortedNewestFirst(_, _)
SortedNewestFirst(ids, cat) ==
    IF ids = <<>> THEN <<>>
    ELSE InsertByDate(ids[Len(ids)], SortedNewestFirst(SubSeq(ids, 1, Len(ids) - 1), cat), cat)

AmiOk(i) == [ok |-> TRUE, id |-> i, err |-> "none"]
AmiError(e) == [ok |-> FALSE, id |-> NoId, err |-> e]

\* the loop over the patterns from pattern k on; failAt is the number of the
\* describe_images request the provider rejects (0: none)
RECURSIVE ResolveFrom(_, _, _)
ResolveFrom(k, cat, failAt) ==
    IF k > Len(Patterns) THEN AmiError("No Ubuntu Server LTS AMI found")
    ELSE IF failAt = k THEN AmiError("Error fetching AMI")
    ELSE LET images == SortedNewestFirst(DescribeImages(cat, Patterns[k]), cat)
         IN  IF images # <<>> THEN AmiOk(images[1])
             ELSE ResolveFrom(k + 1, cat, failAt)

\* a resolution that merges the matches of all patterns before sorting
ResolveMerged(cat, failAt) ==
    LET all == SelectSeq([i \in 1..Len(cat) |-> i], LAMBDA i : cat[i].family # "other")
        images == SortedNewestFirst(all, cat)
    IN  IF failAt = 1 THEN AmiError("Error fetching AMI")
        ELSE IF images # <<>> THEN AmiOk(images[1])
        ELSE AmiError("No Ubuntu Server LTS AMI found")

get_latest_ubuntu_ami(cat, failAt) == ResolveFrom(1, cat, failAt)

Catalogs == UNION {[1..n -> Images] : n \in 0..MaxImages}

(***************************************************************************)
(* The provider and the ~/.ssh directory                                   *)
(***************************************************************************)
InstanceStates == {"pending", "running", "stopping", "stopped",
                   "shutting-down", "terminated"}
\* a terminated instance disappears from the provider after about an hour
Purged == "purged"

\* describe_instances with filters: the ids, in the provider's order, of the
\* instances whose type and state are among the given ones
DescribeInstances(insts, types, states) ==
    SelectSeq([i \in 1..Len(insts) |-> i],
              LAMBDA i : insts[i].type \in types /\ insts[i].state \in states)

\* a filter that forgets the stopped instances
ActiveStatesNoStopped == {"pending", "running", "stopping"}
\* the state filter of the policy gate and of delete's lookup
ActiveStates == {"pending", "running", "stopping", "stopped"}

\* describe_security_groups(GroupNames=[name]): the ids of the groups of that name
GroupsNamed(grps, name) ==
    SelectSeq([g \in 1..Len(grps) |-> g], LAMBDA g : grps[g].name = name)

Registered(name) == \E k \in keyPairs : k.name = name

\* os.path.exists
FileExists(fs, name, kind) == \E f \in fs : f.name = name /\ f.kind = kind
FileOf(fs, name, kind) == CHOOSE f \in fs : f.name = name /\ f.kind = kind
\* os.remove, guarded by os.path.exists
RemoveFile(fs, name, kind) == {f \in fs : ~(f.name = name /\ f.kind = kind)}
\* os.chmod
Chmod(fs, name, kind, perm) ==
    {IF f.name = name /\ f.kind = kind THEN [f EXCEPT !.perm = perm] ELSE f : f \in fs}
\* ssh-keygen -f path: writes path and path.pub; the mode of the public key
\* file follows the umask
WriteKeyPair(fs, name, material, pubPerm) ==
    RemoveFile(RemoveFile(fs, name, "priv"), name, "pub")
        \cup {[name |-> name, kind |-> "priv", perm |-> "0600", material |-> material],
              [name |-> name, kind |-> "pub", perm |-> pubPerm, material |-> material]}
UmaskPubPerms == {"0644", "0600", "0664"}

(***************************************************************************)
(* An invocation's local variables and its record of requests              *)
(***************************************************************************)
InitLoc == [key_name |-> NoKey, material |-> 0, target |-> NoId,
            ami |-> NoId, sg |-> NoId, instance_id |-> <<>>, exit |-> 0]

InitHist == [calls |-> {},            \* provider requests issued
             ambiguous |-> FALSE,     \* more than one command token given
             credsMissing |-> FALSE,  \* a credential variable was not set
             gate |-> "none",         \* what the provider held at the gate
             runReqs |-> 0,           \* run_instances requests issued
             termReqs |-> <<>>,       \* instance ids of terminate requests
             select |-> [listed |-> <<>>, line |-> NoLine],
                                      \* delete's selection prompt: what was listed and typed
             delTarget |-> NoId,      \* the instance teardown was run on
             delete |-> "none",       \* how teardown went
             answer |-> NoLine,       \* the line typed at teardown's confirmation
             stateAtReturn |-> "none",\* the target's state when teardown returned
             key |-> "none",          \* how key provisioning went
             keyName |-> NoKey,       \* the name key provisioning was called with
             importReply |-> "none",  \* the provider's answer to import_key_pair
             regBefore |-> {},        \* the name's registrations when import_key_pair was sent
             fetched |-> "none",      \* the state teardown fetched for its target
             sgPrior |-> FALSE,       \* a provisioning call had returned before this one began
             sgCreateReq |-> FALSE,   \* this invocation requested a group creation
             sg |-> "none",           \* how group provisioning went
             depsDeclined |-> FALSE,  \* the offer to install dependencies was declined
             filesBefore |-> {},      \* the name's key files when key provisioning began
             resolved |-> FALSE,      \* launch_instance asked for the image
             failed |-> "none",       \* the step of launch_instance that failed
             gateLen |-> 0,           \* how many instances the account held at the gate
             launched |-> NoId,       \* the instance this invocation's launch request made
             auto |-> [asked |-> FALSE, listed |-> <<>>, managed |-> <<>>, target |-> NoId],
                                      \* connect's auto-selection: what was listed and taken
             seen |-> [state |-> "none", ip |-> FALSE, key |-> NoKey, keyfile |-> FALSE],
                                      \* what connect found about its target
             ssh |-> "none",          \* how connect went
             session |-> "none"]      \* how the remote shell session ended

\* sys.exit(code), or main() returning (code 0)
Exit(p, code) ==
    /\ pc' = [pc EXCEPT ![p] = "done"]
    /\ loc' = [loc EXCEPT ![p] = [InitLoc EXCEPT !.exit = code]]
Goto(p, label, l) ==
    /\ pc' = [pc EXCEPT ![p] = label]
    /\ loc' = [loc EXCEPT ![p] = l]
Record(p, h) == hist' = [hist EXCEPT ![p] = h]
Called(h, api) == [h EXCEPT !.calls = @ \cup {api}]

provider == <<instances, groups, keyPairs, catalog>>

(***************************************************************************)
(* Start-up and the command dispatcher                                     *)
(***************************************************************************)
Y_n == {<<"y">>, <<"y","e","s">>, <<>>}
\* answer.strip().lower() in ['y', 'yes', '']
IsYes(line) == Lower(Strip(line)) \in Y_n
\* answer.strip().lower() in ['n', 'no']
IsNo(line) == Lower(Strip(line)) \in {<<"n">>, <<"n","o">>}
\* a confirmation that only takes the bare letter for a refusal
IsNoLetterOnly(line) == Lower(Strip(line)) \in {<<"n">>}

\* the lines a user may type at a (Y/n) prompt
AnswerLines == {<<>>, <<"y">>, <<"Y">>, <<"y","e","s">>, <<" ","y"," ">>,
                <<"n">>, <<"N">>, <<"n","o">>, <<"N","o">>, <<" ","N","O"," ">>,
                <<"n","o","p","e">>, <<"x">>, <<" ">>, EOF}

\* check_dependencies: "proceed", or "exit1" for sys.exit(1) and for the
\* EOFError that nothing catches at import time
check_dependencies(missing_deps, gh_missing, response, install) ==
    IF missing_deps /\ response = EOF THEN "exit1"
    ELSE IF missing_deps /\ ~IsYes(response) THEN "exit1"
    ELSE IF missing_deps /\ install # "ok" THEN "exit1"
    ELSE IF gh_missing THEN "exit1"
    ELSE "proceed"

\* os.getenv gives None for a variable that is not set
EnvValues == {"unset", "empty", "set"}
Falsy(v) == v \in {"unset", "empty"}
\* a gate that looks at the access key id alone
CheckAccessKeyOnly(access_key_id, secret_access_key) ==
    IF Falsy(access_key_id) THEN <<"AWS_ACCESS_KEY_ID">> ELSE <<>>
\* check_aws_credentials: the missing variables; non-empty means sys.exit(1)
check_aws_credentials(access_key_id, secret_access_key) ==
    (IF Falsy(access_key_id) THEN <<"AWS_ACCESS_KEY_ID">> ELSE <<>>)
        \o (IF Falsy(secret_access_key) THEN <<"AWS_SECRET_ACCESS_KEY">> ELSE <<>>)

commands == <<W_list, W_create, W_delete, W_ssh, W_key, W_web, W_instances,
              W_console, W_dashboard, W_help, W_h, W_longhelp>>

\* [arg for arg in sys.argv[1:] if arg.lower() in commands]
provided_commands(argv) == SelectSeq(argv, LAMBDA arg : IsIn(Lower(arg), commands))

Plan(cmd, key_name, instance_id) ==
    [cmd |-> cmd, key_name |-> key_name, instance_id |-> instance_id]
Second(argv) == IF Len(argv) > 1 THEN argv[2] ELSE <<>>

\* the if/elif chain on sys.argv[1].lower()
DispatchFirst(argv) ==
    LET command == Lower(argv[1])
    IN  IF command \in {W_h, W_longhelp, W_help} THEN Plan("help", NoKey, <<>>)
        ELSE IF command = W_list THEN Plan("list", NoKey, <<>>)
        ELSE IF command = W_delete THEN Plan("delete", NoKey, <<>>)
        ELSE IF command = W_ssh THEN Plan("ssh", NoKey, Second(argv))
        ELSE IF command = W_key THEN Plan("key", NoKey, <<>>)
        ELSE IF command \in {W_dashboard, W_console, W_instances, W_web}
             THEN Plan("console", NoKey, <<>>)
        ELSE IF command = W_create THEN Plan("create", Second(argv), <<>>)
        ELSE Plan("create", argv[1], <<>>)

\* a dispatcher that goes by the first argument without counting the commands
DispatchNoCount(argv) ==
    IF Len(argv) > 0 THEN DispatchFirst(argv) ELSE Plan("help", NoKey, <<>>)

\* the argument parsing of main()
Dispatch(argv) ==
    IF Len(argv) > 0
    THEN IF Len(provided_commands(argv)) > 1 THEN Plan("help", NoKey, <<>>)
         ELSE DispatchFirst(argv)
    ELSE Plan("help", NoKey, <<>>)

W_LIST == <<"L","I","S","T">>
W_Create == <<"C","r","e","a","t","e">>
W_mykey == <<"m","y","k","e","y">>
ArgTokens == {W_list, W_create, W_delete, W_ssh, W_key, W_web, W_help, W_h,
              W_LIST, W_Create, W_mykey, <<"1">>, <<>>}
Argvs == UNION {[1..n -> ArgTokens] : n \in 0..MaxArgs}

\* more than one of the arguments is a command word, in any letter case
Ambiguous(argv) ==
    Cardinality({i \in 1..Len(argv) : \E k \in 1..Len(commands) : Lower(argv[i]) = commands[k]}) > 1

\* One invocation from its start to the command it dispatches to:
\* check_dependencies(), check_aws_credentials(), the banner's image lookup
\* and the argument parsing.
DepInputs == [missing_deps : BOOLEAN, gh_missing : BOOLEAN, response : AnswerLines,
              install : {"ok", "pip_failed", "import_failed"}]
\* the offer to install was made and the answer was none of 'y', 'yes', ''
DeclinedInstall(missing_deps, response) ==
    missing_deps /\ response # EOF /\ ~IsYes(response)
\* what check_dependencies may do, over all it may find and be told
DepsOutcomes ==
    {[result |-> check_dependencies(i.missing_deps, i.gh_missing, i.response, i.install),
      declined |-> DeclinedInstall(i.missing_deps, i.response)] : i \in DepInputs}
\* what check_aws_credentials may do, over all settings of the two variables:
\* whether it exits, and whether a variable was absent
CredsOutcomes ==
    {[exits |-> check_aws_credentials(e[1], e[2]) # <<>>,
      absent |-> e[1] = "unset" \/ e[2] = "unset"] : e \in EnvValues \X EnvValues}
\* what the argument parsing may do, over all argument lists
ArgsOutcomes == {[plan |-> Dispatch(argv), ambiguous |-> Ambiguous(argv)] : argv \in Argvs}

Main(p) ==
    /\ pc[p] \in {"idle", "done"}
    /\ runs > 0
    /\ runs' = runs - 1
    /\ \/ \E d \in DepsOutcomes :
            /\ d.result = "exit1"
            /\ Exit(p, 1)
            /\ Record(p, [InitHist EXCEPT !.depsDeclined = d.declined])
       \/ /\ \E d \in DepsOutcomes : d.result = "proceed"
          /\ \E c \in CredsOutcomes :
                IF c.exits
                THEN Exit(p, 1) /\ Record(p, [InitHist EXCEPT !.credsMissing = c.absent])
                ELSE \E a \in ArgsOutcomes :
                        LET d == a.plan
                            h == [Called(InitHist, "describe_images") EXCEPT
                                    !.ambiguous = a.ambiguous, !.credsMissing = c.absent]
                        IN  /\ Record(p, h)
                            /\ CASE d.cmd \in {"help", "key", "console"} -> Exit(p, 0)
                                 [] d.cmd = "list" -> Goto(p, "list", InitLoc)
                                 [] d.cmd = "delete" -> Goto(p, "del_list", InitLoc)
                                 [] d.cmd = "ssh" ->
                                       Goto(p, IF d.instance_id = <<>> THEN "ssh" ELSE "ssh_describe",
                                            [InitLoc EXCEPT !.instance_id = d.instance_id])
                                 [] d.cmd = "create" ->
                                       Goto(p, "gate", [InitLoc EXCEPT !.key_name = d.key_name])
    /\ UNCHANGED <<provider, files, keygens, sgReturned, amiOut>>

\* list_instances
ListInstances(p) ==
    /\ pc[p] = "list"
    /\ Record(p, Called(hist[p], "describe_instances"))
    /\ \E ok \in BOOLEAN : Exit(p, IF ok THEN 0 ELSE 1)
    /\ UNCHANGED <<provider, files, keygens, runs, sgReturned, amiOut>>

(***************************************************************************)
(* launch_instance                                                         *)
(***************************************************************************)
\* a managed instance exists in one of the four states the policy names
Occupied ==
    \E i \in 1..Len(instances) :
        /\ instances[i].type = "t3.micro"
        /\ instances[i].state \in {"pending", "running", "stopping", "stopped"}

\* the except clauses of launch_instance: each prints and calls sys.exit(1)
LaunchExceptLenient(e) == IF e = "ClientError" THEN 0 ELSE 1
LaunchExcept(e) == 1

\* whether the gate's listing stops the launch
BlockedNever(existing_instances) == FALSE
Blocked(existing_instances) == existing_instances # <<>>

\* where launch_instance is once the gate has listed an instance: it has
\* returned None
AfterLimitReachedGoOn == "key"
AfterLimitReached == "done"

\* the policy gate: describe_instances, then return None when anything is listed
Gate(p) ==
    /\ pc[p] = "gate"
    /\ \E ok \in BOOLEAN :
        LET existing_instances == DescribeInstances(instances, {ManagedType}, ActiveStates)
            h == [Called(hist[p], "describe_instances") EXCEPT
                    !.gate = IF Occupied THEN "occupied" ELSE "free",
                    !.gateLen = Len(instances)]
        IN  IF ~ok
            THEN /\ Exit(p, LaunchExcept("ClientError"))
                 /\ Record(p, [h EXCEPT !.failed = "describe_instances"])
            ELSE IF Blocked(existing_instances)
            THEN /\ IF AfterLimitReached = "done" THEN Exit(p, 0)
                    ELSE Goto(p, AfterLimitReached, loc[p])
                 /\ Record(p, h)
            ELSE Goto(p, "key", loc[p]) /\ Record(p, h)
    /\ UNCHANGED <<provider, files, keygens, runs, sgReturned, amiOut>>

\* the except block of create_key_pair: remove both key files if they exist
CleanupPrivateOnly(fs, name) == RemoveFile(fs, name, "priv")
CleanupKeyFiles(fs, name) == RemoveFile(RemoveFile(fs, name, "priv"), name, "pub")

\* whether the reply to import_key_pair makes create_key_pair raise
RaisesOnAnyError(reply) == reply # "ok"
ImportRaises(reply) == reply \notin {"ok", "InvalidKeyPair.Duplicate"}

\* the kinds of key file ~/.ssh holds for a name
KindsOf(fs, name) == {f.kind : f \in {g \in fs : g.name = name}}

\* The key step of launch_instance up to the registration request: the
\* look for the default key files, the prompt, and in create_key_pair the
\* run of ssh-keygen and the read of the public key.
KeySetup(p) ==
    /\ pc[p] = "key"
    /\ \E create_key \in AnswerLines, keygen \in {"ok", "failed"}, umask \in UmaskPubPerms :
        LET called == [hist[p] EXCEPT !.keyName = DefaultKey,
                                      !.filesBefore = KindsOf(files, DefaultKey)]
        IN  IF loc[p].key_name # NoKey
            THEN Goto(p, "ami", loc[p]) /\ UNCHANGED <<files, keygens, hist>>
            ELSE IF FileExists(files, DefaultKey, "priv") /\ FileExists(files, DefaultKey, "pub")
            THEN /\ Goto(p, "ami", [loc[p] EXCEPT !.key_name = DefaultKey])
                 /\ UNCHANGED <<files, keygens, hist>>
            ELSE IF create_key = EOF
            THEN Exit(p, LaunchExcept("Exception")) /\ UNCHANGED <<files, keygens, hist>>
            ELSE IF ~IsYes(create_key)
            THEN /\ Goto(p, "ami", loc[p])
                 /\ Record(p, [hist[p] EXCEPT !.key = "declined"])
                 /\ UNCHANGED <<files, keygens>>
            ELSE IF keygen = "failed"
            THEN \* ssh-keygen is missing, or it found the private key file and was
                 \* not told to overwrite it: the except block runs and the caller
                 \* goes on without a key
                 /\ files' = CleanupKeyFiles(files, DefaultKey)
                 /\ Goto(p, "ami", loc[p])
                 /\ Record(p, [called EXCEPT !.key = "keygen_failed"])
                 /\ UNCHANGED keygens
            ELSE /\ keygens' = keygens + 1
                 /\ files' = WriteKeyPair(files, DefaultKey, keygens + 1, umask)
                 /\ Goto(p, "import", [loc[p] EXCEPT !.key_name = DefaultKey,
                                                     !.material = keygens + 1])
                 /\ Record(p, [called EXCEPT !.key = "generated"])
    /\ UNCHANGED <<provider, runs, sgReturned, amiOut>>

\* what the provider may answer to import_key_pair for a name
ImportReplies(name) ==
    (IF Registered(name) THEN {"InvalidKeyPair.Duplicate"} ELSE {"ok"})
        \cup {"RequestLimitExceeded"}

\* create_key_pair from import_key_pair on: the registration, the chmod of
\* both files, and the except block; then the caller's handling of the result
ImportKey(p) ==
    /\ pc[p] = "import"
    /\ \E reply \in ImportReplies(loc[p].key_name) :
        LET name == loc[p].key_name
            present == FileExists(files, name, "priv") /\ FileExists(files, name, "pub")
            sent == [Called(hist[p], "import_key_pair") EXCEPT
                        !.importReply = reply,
                        !.regBefore = {k \in keyPairs : k.name = name}]
        IN  /\ keyPairs' = IF reply = "ok"
                           THEN keyPairs \cup {[name |-> name, material |-> loc[p].material]}
                           ELSE keyPairs
            /\ IF ImportRaises(reply)
               THEN /\ files' = CleanupKeyFiles(files, name)
                    /\ Goto(p, "ami", [loc[p] EXCEPT !.key_name = NoKey, !.material = 0])
                    /\ Record(p, [sent EXCEPT !.key = "import_failed"])
               ELSE IF ~present
               THEN \* os.chmod raises: the file is gone
                    /\ files' = CleanupKeyFiles(files, name)
                    /\ Goto(p, "ami", [loc[p] EXCEPT !.key_name = NoKey, !.material = 0])
                    /\ Record(p, [sent EXCEPT !.key = "chmod_failed"])
               ELSE /\ files' = Chmod(Chmod(files, name, "priv", "0600"), name, "pub", "0644")
                    /\ Goto(p, "ami", [loc[p] EXCEPT !.material = 0])
                    /\ Record(p, [sent EXCEPT
                                    !.key = IF reply = "ok" THEN "imported" ELSE "duplicate"])
    /\ UNCHANGED <<instances, groups, catalog, keygens, runs, sgReturned, amiOut>>

\* the image lookup of launch_instance
LaunchAmi(p) ==
    /\ pc[p] = "ami"
    /\ \E failAt \in 0..Len(Patterns) :
        LET r == get_latest_ubuntu_ami(catalog, failAt)
            h == [Called(hist[p], "describe_images") EXCEPT !.resolved = TRUE]
        IN  IF r.ok THEN Goto(p, "sg", [loc[p] EXCEPT !.ami = r.id]) /\ Record(p, h)
            ELSE /\ Exit(p, LaunchExcept("Exception"))
                 /\ Record(p, [h EXCEPT !.failed = IF r.err = "Error fetching AMI"
                                                   THEN "describe_images" ELSE "no_image"])
    /\ UNCHANGED <<provider, files, keygens, runs, sgReturned, amiOut>>

(***************************************************************************)
(* create_security_group                                                   *)
(***************************************************************************)
\* the group name of the lookup and the group name of the creation
LookupNameMistyped == <<"e","c","2","-","f","r","e","e","-","s","g">>
LookupName == SgName
CreateName == SgName

\* describe_security_groups: return the id of the group found, go on to
\* create one on InvalidGroup.NotFound, raise on any other error
SgDescribe(p) ==
    /\ pc[p] = "sg"
    /\ \E ok \in BOOLEAN :
        LET found == GroupsNamed(groups, LookupName)
            h == [Called(hist[p], "describe_security_groups") EXCEPT
                    !.sgPrior = sgReturned # {}]
        IN  IF ~ok
            THEN /\ Exit(p, LaunchExcept("Exception"))
                 /\ Record(p, [h EXCEPT !.sg = "lookup_failed",
                                        !.failed = "describe_security_groups"])
                 /\ UNCHANGED sgReturned
            ELSE IF found # <<>>
            THEN /\ Goto(p, "run", [loc[p] EXCEPT !.sg = found[1]])
                 /\ Record(p, [h EXCEPT !.sg = "found"])
                 /\ sgReturned' = sgReturned \cup {found[1]}
            ELSE /\ Goto(p, "sg_create", loc[p])
                 /\ Record(p, h)
                 /\ UNCHANGED sgReturned
    /\ UNCHANGED <<provider, files, keygens, runs, amiOut>>

\* create_security_group: the provider refuses a second group of a name
SgCreate(p) ==
    /\ pc[p] = "sg_create"
    /\ \E ok \in BOOLEAN :
        LET h == [Called(hist[p], "create_security_group") EXCEPT !.sgCreateReq = TRUE]
        IN  IF ok /\ GroupsNamed(groups, CreateName) = <<>>
            THEN /\ groups' = Append(groups, [name |-> CreateName, ssh |-> FALSE,
                                              byTool |-> TRUE])
                 /\ Goto(p, "sg_auth", [loc[p] EXCEPT !.sg = Len(groups) + 1])
                 /\ Record(p, h)
            ELSE /\ Exit(p, LaunchExcept("Exception"))
                 /\ Record(p, [h EXCEPT !.sg = "create_failed",
                                        !.failed = "create_security_group"])
                 /\ UNCHANGED groups
    /\ UNCHANGED <<instances, keyPairs, catalog, files, keygens, runs, sgReturned, amiOut>>

\* authorize_security_group_ingress for TCP/22 from anywhere, then return the id
SgAuthorize(p) ==
    /\ pc[p] = "sg_auth"
    /\ \E ok \in BOOLEAN :
        LET h == Called(hist[p], "authorize_security_group_ingress")
        IN  IF ok
            THEN /\ groups' = [groups EXCEPT ![loc[p].sg].ssh = TRUE]
                 /\ Goto(p, "run", loc[p])
                 /\ Record(p, [h EXCEPT !.sg = "created"])
                 /\ sgReturned' = sgReturned \cup {loc[p].sg}
            ELSE /\ Exit(p, LaunchExcept("Exception"))
                 /\ Record(p, [h EXCEPT !.sg = "authorize_failed",
                                        !.failed = "authorize_security_group_ingress"])
                 /\ UNCHANGED <<groups, sgReturned>>
    /\ UNCHANGED <<instances, keyPairs, catalog, files, keygens, runs, amiOut>>

(***************************************************************************)
(* launch_instance: the launch request and the wait                        *)
(***************************************************************************)
\* run_instances: the provider refuses when the account is full or the key
\* pair name is not registered; no subnet is named, and the default subnet
\* gives the instance a public address
RunInstances(p) ==
    /\ pc[p] = "run"
    /\ \E ok \in BOOLEAN, ip \in {TRUE} :
        LET h == [Called(hist[p], "run_instances") EXCEPT !.runReqs = @ + 1]
            accepted == /\ ok
                        /\ Len(instances) < MaxInstances
                        /\ loc[p].key_name = NoKey \/ Registered(loc[p].key_name)
        IN  IF accepted
            THEN /\ instances' = Append(instances, [type |-> ManagedType,
                                                    state |-> "pending",
                                                    key |-> loc[p].key_name,
                                                    ip |-> ip])
                 /\ Goto(p, "wait", [loc[p] EXCEPT !.target = Len(instances) + 1])
                 /\ Record(p, [h EXCEPT !.launched = Len(instances) + 1])
            ELSE /\ Exit(p, LaunchExcept("ClientError"))
                 /\ Record(p, [h EXCEPT !.failed = "run_instances"])
                 /\ UNCHANGED instances
    /\ UNCHANGED <<groups, keyPairs, catalog, files, keygens, runs, sgReturned, amiOut>>

\* terminate_instances moves an instance towards terminated
AfterTerminate(state) ==
    IF state \in {"shutting-down", "terminated"} THEN state ELSE "shutting-down"

\* the provider requests launch_instance issues for the new instance once
\* the wait has failed: its except clauses issue none
RollbackOnError == {"terminate_instances"}
OnErrorRequests == {}

\* the instance_running waiter and the final describe_instances
WaitRunning(p) ==
    /\ pc[p] = "wait"
    /\ \E ok \in BOOLEAN :
        LET id == loc[p].target
            h == Called(hist[p], "describe_instances")
            undo == "terminate_instances" \in OnErrorRequests
        IN  IF ok
            THEN /\ instances[id].state = "running"
                 /\ Exit(p, 0)
                 /\ Record(p, h)
                 /\ UNCHANGED instances
            ELSE /\ Exit(p, LaunchExcept("Exception"))
                 /\ Record(p, [h EXCEPT !.failed = "wait",
                                        !.calls = @ \cup OnErrorRequests,
                                        !.termReqs = IF undo THEN Append(@, id) ELSE @])
                 /\ instances' = IF undo
                                 THEN [instances EXCEPT ![id].state = AfterTerminate(@)]
                                 ELSE instances
    /\ UNCHANGED <<groups, keyPairs, catalog, files, keygens, runs, sgReturned, amiOut>>

(***************************************************************************)
(* delete: main()'s lookup and delete_instance                             *)
(***************************************************************************)
N1 == <<"1">>
N2 == <<"2">>
N3 == <<"3">>
\* the lines a user may type at the numbered prompt
ChoiceLines == {N1, N2, N3, <<"4">>, <<"0">>, <<"-","1">>, <<"+","2">>, <<" ","1"," ">>,
                <<"1","0">>, <<"x">>, <<>>, <<"1",".","5">>, <<"t","w","o">>, EOF}

\* instances[choice] for choice = int(line) - 1 with 0 <= choice < len(instances);
\* NoId for "Invalid choice"
ChosenUnshifted(listed, line) ==
    LET r == ParseInt(line)
    IN  IF r.ok /\ 0 <= r.val /\ r.val < Len(listed) THEN listed[r.val + 1] ELSE NoId
Chosen(listed, line) ==
    LET r == ParseInt(line)
        choice == r.val - 1
    IN  IF r.ok /\ 0 <= choice /\ choice < Len(listed) THEN listed[choice + 1] ELSE NoId

\* the delete branch of main() up to the call of delete_instance
DeleteLookup(p) ==
    /\ pc[p] = "del_list"
    /\ \E ok \in BOOLEAN, line \in ChoiceLines :
        LET listed == DescribeInstances(instances, {ManagedType}, ActiveStates)
            h == Called(hist[p], "describe_instances")
            asked == [h EXCEPT !.select = [listed |-> listed, line |-> line]]
        IN  IF ~ok THEN Exit(p, 1) /\ Record(p, h)
            ELSE IF listed = <<>> THEN Exit(p, 0) /\ Record(p, h)
            ELSE IF Len(listed) = 1
            THEN Goto(p, "del_describe", [loc[p] EXCEPT !.target = listed[1]]) /\ Record(p, h)
            ELSE IF line = EOF THEN Exit(p, 1) /\ Record(p, asked)
            ELSE IF Chosen(listed, line) = NoId THEN Exit(p, 0) /\ Record(p, asked)
            ELSE /\ Goto(p, "del_describe", [loc[p] EXCEPT !.target = Chosen(listed, line)])
                 /\ Record(p, asked)
    /\ UNCHANGED <<provider, files, keygens, runs, sgReturned, amiOut>>

\* whether delete_instance returns at once for an instance in this state
ReturnsEarlyNever(state) == FALSE
ReturnsEarly(state) == state = "terminated"

\* whether the line typed at the confirmation cancels the deletion
Cancels(line) == IsNo(line)

\* delete_instance up to the confirmation: the fetch of the record, the
\* return for a terminated instance, the prompt
DeleteDescribe(p) ==
    /\ pc[p] = "del_describe"
    /\ \E ok \in BOOLEAN, confirm \in AnswerLines :
        LET id == loc[p].target
            state == instances[id].state
            h == [Called(hist[p], "describe_instances") EXCEPT
                    !.delTarget = id, !.fetched = IF ok THEN state ELSE "none"]
        IN  IF ~ok THEN Exit(p, 1) /\ Record(p, [h EXCEPT !.delete = "fetch_failed"])
            ELSE IF state = Purged THEN Exit(p, 0) /\ Record(p, [h EXCEPT !.delete = "not_found"])
            ELSE IF ReturnsEarly(state)
            THEN Exit(p, 0) /\ Record(p, [h EXCEPT !.delete = "already_terminated"])
            ELSE IF confirm = EOF
            THEN Exit(p, 1) /\ Record(p, [h EXCEPT !.delete = "eof", !.answer = confirm])
            ELSE IF Cancels(confirm)
            THEN Exit(p, 0) /\ Record(p, [h EXCEPT !.delete = "cancelled", !.answer = confirm])
            ELSE /\ Goto(p, "del_terminate", loc[p])
                 /\ Record(p, [h EXCEPT !.delete = "confirmed", !.answer = confirm])
    /\ UNCHANGED <<provider, files, keygens, runs, sgReturned, amiOut>>

\* delete_instance from the terminate request on; it does not wait
DeleteTerminate(p) ==
    /\ pc[p] = "del_terminate"
    /\ \E ok \in BOOLEAN :
        LET id == loc[p].target
            h == [Called(hist[p], "terminate_instances") EXCEPT
                    !.termReqs = Append(@, id)]
        IN  IF ok /\ instances[id].state # Purged
            THEN /\ instances' = [instances EXCEPT ![id].state = AfterTerminate(@)]
                 /\ Exit(p, 0)
                 /\ Record(p, [h EXCEPT !.delete = "initiated",
                                        !.stateAtReturn = AfterTerminate(instances[id].state)])
            ELSE /\ Exit(p, 1)
                 /\ Record(p, [h EXCEPT !.delete = "terminate_failed"])
                 /\ UNCHANGED instances
    /\ UNCHANGED <<groups, keyPairs, catalog, files, keygens, runs, sgReturned, amiOut>>

(***************************************************************************)
(* ssh_to_instance                                                         *)
(***************************************************************************)
\* the text of an instance id
IdText(i) == <<DigitChars[i + 1]>>

\* describe_instances(InstanceIds=[instance_id]): the instance of that id;
\* NoId stands for InvalidInstanceID.NotFound
InstanceOf(insts, instance_id) ==
    LET hits == {i \in 1..Len(insts) : IdText(i) = instance_id /\ insts[i].state # Purged}
    IN  IF hits = {} THEN NoId ELSE CHOOSE i \in hits : TRUE

\* the filter of the auto-selection names the running state and no type
AnyType == {ManagedType, OtherType}

\* ssh_to_instance without an instance id: list the running instances and
\* take the first
SshSelect(p) ==
    /\ pc[p] = "ssh"
    /\ \E ok \in BOOLEAN :
        LET running_instances == DescribeInstances(instances, AnyType, {"running"})
            managed == DescribeInstances(instances, {ManagedType}, {"running"})
            h == Called(hist[p], "describe_instances")
            asked(target) == [asked |-> TRUE, listed |-> running_instances,
                              managed |-> managed, target |-> target]
        IN  IF ~ok
            THEN Exit(p, 1) /\ Record(p, [h EXCEPT !.ssh = "list_failed"])
            ELSE IF running_instances = <<>>
            THEN /\ Exit(p, 0)
                 /\ Record(p, [h EXCEPT !.ssh = "none_running", !.auto = asked(NoId)])
            ELSE /\ Goto(p, "ssh_describe",
                         [loc[p] EXCEPT !.instance_id = IdText(running_instances[1])])
                 /\ Record(p, [h EXCEPT !.auto = asked(running_instances[1])])
    /\ UNCHANGED <<provider, files, keygens, runs, sgReturned, amiOut>>

\* f"ec2-free-key-{int(time.time())}": the tool is started once per tick of
\* the clock, so the starts that are left tell the time
TimeKey(t) == <<"e","c","2","-","f","r","e","e","-","k","e","y","-">> \o <<DigitChars[t + 1]>>

\* os.path.exists(key_file_path)
KeyFileAssumed(fs, key_name) == TRUE
KeyFilePresent(fs, key_name) == FileExists(fs, key_name, "priv")

\* how the run of the ssh client may end: it returns, it is interrupted from
\* the keyboard, the client is not installed, anything else is raised
SessionOutcomes == {"ended", "interrupted", "ssh_missing", "error"}
\* the exit status after the session: every outcome is caught or ignored
SessionStatusUncaught(outcome) == IF outcome = "interrupted" THEN 130 ELSE 0
SessionStatus(outcome) == 0

\* ssh_to_instance from the fetch of the target on: the checks of its state,
\* address and key, the offer of a key pair for future instances up to the
\* registration request, and the run of the ssh client
SshDescribe(p) ==
    /\ pc[p] = "ssh_describe"
    /\ \E ok \in BOOLEAN :
        LET id == InstanceOf(instances, loc[p].instance_id)
            h == Called(hist[p], "describe_instances")
        IN  IF ~ok \/ id = NoId
            THEN /\ Exit(p, 1)
                 /\ Record(p, [h EXCEPT !.ssh = IF ok THEN "not_found" ELSE "fetch_failed"])
                 /\ UNCHANGED <<files, keygens>>
            ELSE
            LET instance == instances[id]
                key_name == instance.key
                new_key_name == TimeKey(runs)
                hs == [h EXCEPT !.seen = [state |-> instance.state, ip |-> instance.ip,
                                         key |-> key_name,
                                         keyfile |-> FileExists(files, key_name, "priv")]]
                called == [hs EXCEPT !.ssh = "no_key", !.keyName = new_key_name,
                                     !.filesBefore = KindsOf(files, new_key_name)]
            IN  IF instance.state # "running"
                THEN /\ Exit(p, 0)
                     /\ Record(p, [hs EXCEPT !.ssh = "not_running"])
                     /\ UNCHANGED <<files, keygens>>
                ELSE IF ~instance.ip
                THEN /\ Exit(p, 0)
                     /\ Record(p, [hs EXCEPT !.ssh = "no_ip"])
                     /\ UNCHANGED <<files, keygens>>
                ELSE IF key_name = NoKey
                THEN \E create_key \in AnswerLines, keygen \in {"ok", "failed"},
                        umask \in UmaskPubPerms :
                        IF create_key = EOF
                        THEN /\ Exit(p, 1)
                             /\ Record(p, [hs EXCEPT !.ssh = "no_key"])
                             /\ UNCHANGED <<files, keygens>>
                        ELSE IF ~IsYes(create_key)
                        THEN /\ Exit(p, 0)
                             /\ Record(p, [hs EXCEPT !.ssh = "no_key", !.key = "declined"])
                             /\ UNCHANGED <<files, keygens>>
                        ELSE IF keygen = "failed"
                        THEN /\ files' = CleanupKeyFiles(files, new_key_name)
                             /\ Exit(p, 0)
                             /\ Record(p, [called EXCEPT !.key = "keygen_failed"])
                             /\ UNCHANGED keygens
                        ELSE /\ keygens' = keygens + 1
                             /\ files' = WriteKeyPair(files, new_key_name, keygens + 1, umask)
                             /\ Goto(p, "ssh_import", [loc[p] EXCEPT !.key_name = new_key_name,
                                                                     !.material = keygens + 1])
                             /\ Record(p, [called EXCEPT !.key = "generated"])
                ELSE IF ~KeyFilePresent(files, key_name)
                THEN /\ Exit(p, 0)
                     /\ Record(p, [hs EXCEPT !.ssh = "key_missing"])
                     /\ UNCHANGED <<files, keygens>>
                ELSE \E outcome \in SessionOutcomes :
                        /\ Exit(p, SessionStatus(outcome))
                        /\ Record(p, [hs EXCEPT !.ssh = "session", !.session = outcome])
                        /\ UNCHANGED <<files, keygens>>
    /\ UNCHANGED <<provider, runs, sgReturned, amiOut>>

\* create_key_pair from import_key_pair on, called by ssh_to_instance, which
\* reports a failure and returns
SshImportKey(p) ==
    /\ pc[p] = "ssh_import"
    /\ \E reply \in ImportReplies(loc[p].key_name) :
        LET name == loc[p].key_name
            present == FileExists(files, name, "priv") /\ FileExists(files, name, "pub")
            sent == [Called(hist[p], "import_key_pair") EXCEPT
                        !.importReply = reply,
                        !.regBefore = {k \in keyPairs : k.name = name}]
        IN  /\ keyPairs' = IF reply = "ok"
                           THEN keyPairs \cup {[name |-> name, material |-> loc[p].material]}
                           ELSE keyPairs
            /\ Exit(p, 0)
            /\ IF ImportRaises(reply)
               THEN /\ files' = CleanupKeyFiles(files, name)
                    /\ Record(p, [sent EXCEPT !.key = "import_failed"])
               ELSE IF ~present
               THEN /\ files' = CleanupKeyFiles(files, name)
                    /\ Record(p, [sent EXCEPT !.key = "chmod_failed"])
               ELSE /\ files' = Chmod(Chmod(files, name, "priv", "0600"), name, "pub", "0644")
                    /\ Record(p, [sent EXCEPT
                                    !.key = IF reply = "ok" THEN "imported" ELSE "duplicate"])
    /\ UNCHANGED <<instances, groups, catalog, keygens, runs, sgReturned, amiOut>>

(***************************************************************************)
(* The provider moving instances through their lifecycle                   *)
(***************************************************************************)
NextState(state) ==
    CASE state = "pending" -> "running"
      [] state = "stopping" -> "stopped"
      [] state = "shutting-down" -> "terminated"
      [] state = "terminated" -> Purged
      [] OTHER -> state

ProviderProgress ==
    /\ \E i \in 1..Len(instances) :
        /\ NextState(instances[i].state) # instances[i].state
        /\ instances' = [instances EXCEPT ![i].state = NextState(@)]
    /\ UNCHANGED <<groups, keyPairs, catalog, files, keygens, runs, pc, loc, hist,
                   sgReturned, amiOut>>

(***************************************************************************)
(* Initial states and the specifications                                   *)
(***************************************************************************)
\* what the account may hold before the tool is first run
InitInstanceRecords ==
    [type : {ManagedType}, state : InstanceStates, key : {NoKey}, ip : {TRUE}]
        \cup [type : {OtherType}, state : {"running"}, key : {NoKey}, ip : {TRUE}]
\* of several instances, each is in a state in which the provider leaves it
SteadyRecords == {r \in InitInstanceRecords : r.state \in {"running", "stopped", "terminated"}}
InitInstances ==
    {<<>>} \cup [1..1 -> InitInstanceRecords]
        \cup UNION {[1..n -> SteadyRecords] : n \in 2..MaxInit}

BaseCatalog == <<[family |-> Patterns[2], date |-> 1],
                 [family |-> Patterns[3], date |-> 2],
                 [family |-> Patterns[2], date |-> 2]>>

KeyFile(name, kind, perm) == [name |-> name, kind |-> kind, perm |-> perm, material |-> 0]
InitFiles == {{},
              {KeyFile(DefaultKey, "priv", "0600"), KeyFile(DefaultKey, "pub", "0644")},
              {KeyFile(DefaultKey, "priv", "0600")},
              {KeyFile(DefaultKey, "pub", "0644")}}
InitKeyPairs == {{},
                 {[name |-> DefaultKey, material |-> 0]},
                 {[name |-> W_mykey, material |-> 0]}}
InitGroups == {<<>>,
               <<[name |-> SgName, ssh |-> TRUE, byTool |-> FALSE]>>,
               <<[name |-> SgName, ssh |-> FALSE, byTool |-> FALSE]>>}

\* the instances connect may be pointed at, one or two of them
SshRecords ==
    [type : {ManagedType}, state : {"running", "stopped"},
     key : {NoKey, DefaultKey}, ip : BOOLEAN]
SshPairRecords ==
    [type : {ManagedType, OtherType}, state : {"running", "stopped"},
     key : {DefaultKey}, ip : {TRUE}]
SshFiles == {{}, {KeyFile(DefaultKey, "priv", "0600"), KeyFile(DefaultKey, "pub", "0644")}}
SshEnvs ==
    ([1..1 -> SshRecords] \X SshFiles)
        \cup ([1..2 -> SshPairRecords] \X {f \in SshFiles : f # {}})

BaseEnv == [instances |-> <<>>, groups |-> <<>>, keyPairs |-> {}, files |-> {},
            catalog |-> BaseCatalog]
\* the environments the tool is started in: one aspect varies at a time
InitEnvs ==
    {[BaseEnv EXCEPT !.instances = i] : i \in InitInstances}
        \cup {[BaseEnv EXCEPT !.files = f, !.keyPairs = k] : f \in InitFiles, k \in InitKeyPairs}
        \cup {[BaseEnv EXCEPT !.groups = g] : g \in InitGroups}
        \cup {[BaseEnv EXCEPT !.catalog = <<>>]}
        \cup {[BaseEnv EXCEPT !.instances = e[1], !.files = e[2],
                              !.keyPairs = {[name |-> DefaultKey, material |-> 0]}] :
                 e \in SshEnvs}

NotResolved == [ok |-> FALSE, id |-> NoId, err |-> "not resolved"]

InitProcs ==
    /\ keygens = 0
    /\ pc = [p \in Procs |-> "idle"]
    /\ loc = [p \in Procs |-> InitLoc]
    /\ hist = [p \in Procs |-> InitHist]
    /\ sgReturned = {}
    /\ amiOut = NotResolved

Init ==
    /\ \E e \in InitEnvs :
        /\ instances = e.instances
        /\ groups = e.groups
        /\ keyPairs = e.keyPairs
        /\ files = e.files
        /\ catalog = e.catalog
    /\ runs = MaxRuns
    /\ InitProcs

Step(p) ==
    \/ Main(p)
    \/ ListInstances(p)
    \/ Gate(p)
    \/ KeySetup(p)
    \/ ImportKey(p)
    \/ LaunchAmi(p)
    \/ SgDescribe(p)
    \/ SgCreate(p)
    \/ SgAuthorize(p)
    \/ RunInstances(p)
    \/ WaitRunning(p)
    \/ DeleteLookup(p)
    \/ DeleteDescribe(p)
    \/ DeleteTerminate(p)
    \/ SshSelect(p)
    \/ SshDescribe(p)
    \/ SshImportKey(p)

\* invocations run one after another
Next == Step(1) \/ ProviderProgress

Spec == Init /\ [][Next]_vars

\* Image resolution on its own: every catalog within the bounds, every
\* request the provider may reject.
InitAmi ==
    /\ instances = <<>>
    /\ groups = <<>>
    /\ keyPairs = {}
    /\ files = {}
    /\ catalog \in Catalogs
    /\ runs = 0
    /\ InitProcs

ResolveAmi ==
    /\ amiOut = NotResolved
    /\ \E failAt \in 0..Len(Patterns) : amiOut' = get_latest_ubuntu_ami(catalog, failAt)
    /\ UNCHANGED <<instances, groups, keyPairs, catalog, files, keygens, runs,
                   pc, loc, hist, sgReturned>>

NextAmi == ResolveAmi

SpecAmi == InitAmi /\ [][NextAmi]_vars

\* Two invocations at once against one account: the steps of the two
\* interleave at every provider request.
InitPairInstances ==
    {<<>>, <<[type |-> ManagedType, state |-> "running", key |-> NoKey, ip |-> TRUE]>>}

InitPair ==
    /\ instances \in InitPairInstances
    /\ groups = <<>>
    /\ keyPairs = {}
    /\ files = {}
    /\ catalog = BaseCatalog
    /\ runs = PairRuns
    /\ InitProcs

NextPair == (\E p \in Procs : Step(p)) \/ ProviderProgress

SpecPair == InitPair /\ [][NextPair]_vars

(***************************************************************************)
(* Properties                                                              *)
(***************************************************************************)
\* C1 (one-instance invariant): a create that queries the provider while a
\* t3.micro instance is pending, running, stopping or stopped issues no
\* run_instances request and returns without going on to launch.
C1_GateBlocksLaunch ==
    \A p \in Procs :
        hist[p].gate = "occupied" =>
            /\ hist[p].runReqs = 0
            /\ "run_instances" \notin hist[p].calls
            /\ pc[p] = "done"
C1_Witness ==
    \E p \in Procs : hist[p].gate = "occupied" /\ pc[p] = "done" /\ loc[p].exit = 0

\* C2 as stated (ambiguous command rejection): an invocation given more than
\* one command token performs no provider call of any kind.
C2_NoProviderCall ==
    \A p \in Procs : hist[p].ambiguous => hist[p].calls = {}
\* C2 as amended: an invocation given more than one command token ends with
\* the help text and status 0 without dispatching a command; the only
\* provider call it makes is the read-only image lookup of the banner.
C2_OnlyBannerLookup ==
    \A p \in Procs :
        hist[p].ambiguous =>
            /\ hist[p].calls \subseteq {"describe_images"}
            /\ pc[p] = "done"
            /\ loc[p].exit = 0
C2_Witness ==
    \E p \in Procs : hist[p].ambiguous /\ pc[p] = "done" /\ hist[p].calls = {"describe_images"}

\* C3 (terminated-instance no-op): when teardown fetches the state terminated
\* for its target it shows no confirmation prompt, issues no terminate
\* request and returns after reporting that the instance is already terminated.
C3_TerminatedNoOp ==
    \A p \in Procs :
        hist[p].fetched = "terminated" =>
            /\ hist[p].answer = NoLine
            /\ hist[p].termReqs = <<>>
            /\ "terminate_instances" \notin hist[p].calls
            /\ hist[p].delete = "already_terminated"
            /\ pc[p] = "done"
            /\ loc[p].exit = 0
C3_Witness ==
    \E p \in Procs : hist[p].fetched = "terminated" /\ hist[p].delTarget # NoId

\* C4 (idempotent access group): all group ids the provisioning step has
\* returned are one and the same, at most one group named ec2-free-tier-sg
\* exists, and a call begun after a call has returned requests no creation.
C4_IdempotentGroup ==
    /\ Cardinality(sgReturned) <= 1
    /\ Cardinality({g \in 1..Len(groups) : groups[g].name = SgName}) <= 1
    /\ \A p \in Procs : hist[p].sgPrior => ~hist[p].sgCreateReq
C4_Witness ==
    \E p \in Procs : hist[p].sgPrior /\ hist[p].sg = "found" /\ loc[p].sg \in sgReturned

\* C5 (partial-failure cleanup): when the key files were generated and the
\* provider rejects the registration for a reason other than a duplicate
\* name, neither key file of that name is left and the caller gets the error.
C5_CleanupOnRejection ==
    \A p \in Procs :
        hist[p].importReply \notin {"none", "ok", "InvalidKeyPair.Duplicate"} =>
            /\ ~\E f \in files : f.name = hist[p].keyName
            /\ hist[p].key = "import_failed"
            /\ loc[p].key_name = NoKey
C5_Witness ==
    \E p \in Procs : hist[p].importReply = "RequestLimitExceeded" /\ hist[p].keyName = DefaultKey

\* C6 (key-pair duplicate tolerance): when the provider answers that the
\* name is already registered, provisioning does not fail: it returns the
\* name, the name has exactly one private key file (0600) and one public key
\* file (0644), and the provider's registration of the name is as it was.
C6_DuplicateTolerated ==
    \A p \in Procs :
        hist[p].importReply = "InvalidKeyPair.Duplicate" =>
            LET name == hist[p].keyName
                mine == {f \in files : f.name = name}
            IN  /\ hist[p].key = "duplicate"
                /\ pc[p] # "done" => loc[p].key_name = name
                /\ {[kind |-> f.kind, perm |-> f.perm] : f \in mine}
                        = {[kind |-> "priv", perm |-> "0600"], [kind |-> "pub", perm |-> "0644"]}
                /\ Cardinality(mine) = 2
                /\ {k \in keyPairs : k.name = name} = hist[p].regBefore
                /\ Cardinality(hist[p].regBefore) = 1
C6_Witness ==
    \E p \in Procs :
        /\ hist[p].importReply = "InvalidKeyPair.Duplicate"
        /\ pc[p] = "ami"
        /\ loc[p].key_name = DefaultKey
        /\ \E k \in keyPairs, f \in files :
            k.name = DefaultKey /\ f.name = DefaultKey /\ f.material # k.material

\* C7 (image-resolution fallback order): the image returned is one of the
\* first pattern that has a match and none of that pattern's matches is
\* newer; an image of a later pattern is never returned, newer or not; with
\* no match for any pattern the resolution fails, and it reports that no
\* image was found only then.
MatchesOf(k) == {i \in 1..Len(catalog) : catalog[i].family = Patterns[k]}
FirstMatching(k) == MatchesOf(k) # {} /\ \A j \in 1..(k - 1) : MatchesOf(j) = {}
NoMatch == \A k \in 1..Len(Patterns) : MatchesOf(k) = {}
C7_FallbackOrder ==
    amiOut # NotResolved =>
        /\ amiOut.ok =>
            \E k \in 1..Len(Patterns) :
                /\ FirstMatching(k)
                /\ amiOut.id \in MatchesOf(k)
                /\ \A i \in MatchesOf(k) : catalog[i].date <= catalog[amiOut.id].date
        /\ NoMatch => ~amiOut.ok
        /\ amiOut.err = "No Ubuntu Server LTS AMI found" => NoMatch
C7_Witness ==
    /\ amiOut.ok
    /\ MatchesOf(1) = {}
    /\ amiOut.id \in MatchesOf(2)
    /\ \E i \in MatchesOf(3) : catalog[i].date > catalog[amiOut.id].date

\* C8 (credential gate): an invocation started with AWS_ACCESS_KEY_ID or
\* AWS_SECRET_ACCESS_KEY absent has exited with a non-zero status and has
\* issued no provider request at all.
C8_CredentialGate ==
    \A p \in Procs :
        hist[p].credsMissing =>
            /\ hist[p].calls = {}
            /\ pc[p] = "done"
            /\ loc[p].exit # 0
C8_Witness ==
    \E p \in Procs : hist[p].credsMissing /\ pc[p] = "done" /\ loc[p].exit = 1

\* C9 (teardown confirmation): a terminate request is issued only after the
\* confirmation was answered; after n or no in any letter case there is no
\* terminate request; after an empty line or any other answer the finished
\* teardown has issued exactly one terminate request, for its target, and
\* it returned while the target was not yet terminated.
NegativeAnswers == {<<"n">>, <<"N">>, <<"n","o">>, <<"N","o">>, <<" ","N","O"," ">>}
OtherAnswers == (AnswerLines \ NegativeAnswers) \ {EOF}
C9_Confirmation ==
    \A p \in Procs :
        /\ hist[p].termReqs # <<>> => hist[p].answer \in OtherAnswers
        /\ hist[p].answer \in NegativeAnswers =>
                hist[p].termReqs = <<>> /\ pc[p] = "done" /\ loc[p].exit = 0
        /\ hist[p].answer \in OtherAnswers =>
                /\ pc[p] \in {"del_terminate", "done"}
                /\ pc[p] = "del_terminate" => hist[p].termReqs = <<>>
                /\ pc[p] = "done" => hist[p].termReqs = <<hist[p].delTarget>>
        /\ hist[p].delete = "initiated" => hist[p].stateAtReturn = "shutting-down"
C9_Witness ==
    \E p \in Procs :
        /\ hist[p].answer = <<>>
        /\ hist[p].delete = "initiated"
        /\ hist[p].termReqs = <<hist[p].delTarget>>
        /\ instances[hist[p].delTarget].state = "shutting-down"

\* C10 (delete target selection): at the numbered prompt a line that is not
\* a number, or a number outside 1..N, ends the invocation with no teardown
\* and no provider request besides the lookups already made; the number k
\* in 1..N runs teardown on the k-th listed instance and on no other.
RECURSIVE Digits(_)
Digits(n) == IF n < 10 THEN <<DigitChars[n + 1]>> ELSE Digits(n \div 10) \o <<DigitChars[(n % 10) + 1]>>
Numeral(k) == IF k < 0 THEN <<"-">> \o Digits(0 - k) ELSE Digits(k)
Spells(line, k) ==
    line \in {Numeral(k), <<" ">> \o Numeral(k) \o <<" ">>, <<"+">> \o Numeral(k)}
NotNumbers == {<<"x">>, <<>>, <<"1",".","5">>, <<"t","w","o">>}
C10_Selection ==
    \A p \in Procs :
        hist[p].select.line # NoLine =>
            LET listed == hist[p].select.listed
                line == hist[p].select.line
                N == Len(listed)
            IN  /\ N > 1
                /\ (line \in NotNumbers \/ \E k \in (-9..20) \ (1..N) : Spells(line, k)) =>
                        /\ hist[p].delTarget = NoId
                        /\ hist[p].termReqs = <<>>
                        /\ hist[p].calls \subseteq {"describe_images", "describe_instances"}
                        /\ pc[p] = "done"
                        /\ loc[p].exit = 0
                /\ \A k \in 1..N :
                        Spells(line, k) =>
                            /\ pc[p] \in {"del_describe", "del_terminate", "done"}
                            /\ pc[p] = "del_describe" =>
                                    loc[p].target = listed[k] /\ hist[p].delTarget = NoId
                            /\ pc[p] # "del_describe" => hist[p].delTarget = listed[k]
                            /\ hist[p].termReqs \in {<<>>, <<listed[k]>>}
C10_Witness ==
    \E p \in Procs :
        /\ hist[p].select.line # NoLine
        /\ hist[p].select.line = N2
        /\ hist[p].delTarget = hist[p].select.listed[2]
        /\ hist[p].termReqs = <<hist[p].select.listed[2]>>
C10_WitnessAbort ==
    \E p \in Procs :
        /\ hist[p].select.line # NoLine
        /\ hist[p].select.line = <<"4">>
        /\ pc[p] = "done"

\* C11 (remote-access preconditions): connect runs the ssh client only when
\* the record it fetched for its target is running, has a public address and
\* names a key pair whose private key file is in ~/.ssh; when one of the four
\* fails no session is started; when only the key file is missing connect
\* returns having generated and registered no key and having sent nothing
\* but lookups.
Connectable(seen) ==
    seen.state = "running" /\ seen.ip /\ seen.key # NoKey /\ seen.keyfile
C11_ConnectPreconditions ==
    \A p \in Procs :
        /\ hist[p].session # "none" => Connectable(hist[p].seen)
        /\ (hist[p].seen.state # "none" /\ ~Connectable(hist[p].seen)) =>
                /\ hist[p].session = "none"
                /\ hist[p].ssh \in {"not_running", "no_ip", "no_key", "key_missing"}
                /\ pc[p] \in {"done", "ssh_import"}
        /\ (/\ hist[p].seen.state = "running"
            /\ hist[p].seen.ip
            /\ hist[p].seen.key # NoKey
            /\ ~hist[p].seen.keyfile) =>
                /\ hist[p].ssh = "key_missing"
                /\ hist[p].key = "none"
                /\ hist[p].keyName = NoKey
                /\ hist[p].calls \subseteq {"describe_images", "describe_instances"}
                /\ ~FileExists(files, hist[p].seen.key, "priv")
                /\ pc[p] = "done"
                /\ loc[p].exit = 0
C11_Witness ==
    \E p \in Procs :
        /\ hist[p].session = "ended"
        /\ Connectable(hist[p].seen)
        /\ pc[p] = "done"
C11_WitnessKeyMissing ==
    \E p \in Procs : hist[p].ssh = "key_missing" /\ hist[p].seen.key = DefaultKey

\* C12 (remote-access auto-selection): connect without an instance id takes
\* the first running instance of the managed type, in the provider's order;
\* when no instance of the managed type is running it reports that none is
\* running and takes nothing, so an instance of another type is never taken.
C12_AutoSelectsManaged ==
    \A p \in Procs :
        hist[p].auto.asked =>
            IF hist[p].auto.managed # <<>>
            THEN hist[p].auto.target = hist[p].auto.managed[1]
            ELSE hist[p].auto.target = NoId /\ hist[p].ssh = "none_running"
\* what the auto-selection does take: the first running instance of any type
C12_FirstRunningOfAnyType ==
    \A p \in Procs :
        hist[p].auto.asked =>
            IF hist[p].auto.listed # <<>>
            THEN hist[p].auto.target = hist[p].auto.listed[1]
            ELSE hist[p].auto.target = NoId /\ hist[p].ssh = "none_running"
C12_OtherTypeTaken ==
    \E p \in Procs :
        /\ hist[p].auto.asked
        /\ hist[p].auto.target # NoId
        /\ instances[hist[p].auto.target].type = OtherType
        /\ hist[p].session # "none"

\* the user said no to a prompt, or interrupted the remote shell
DeclinedDelete(h) == h.delete = "cancelled"
DeclinedSshKey(h) == h.ssh = "no_key" /\ h.key = "declined"
DeclinedCreateKey(h) == h.gate # "none" /\ h.key = "declined"
Interrupted(h) == h.session = "interrupted"

\* C13 as stated (user cancellation): after the user has declined the
\* dependency install, the key pair offered by create or by ssh, or the
\* delete confirmation, or has interrupted the remote shell, the invocation
\* that has ended has ended with status 0, unless a later step failed.
C13_DeclineExitsZero ==
    \A p \in Procs :
        (\/ hist[p].depsDeclined
         \/ DeclinedDelete(hist[p])
         \/ DeclinedSshKey(hist[p])
         \/ DeclinedCreateKey(hist[p])
         \/ Interrupted(hist[p])) =>
            (pc[p] = "done" => loc[p].exit = 0 \/ hist[p].failed # "none")

\* C13 (user cancellation, as the code has it): declining the delete
\* confirmation or the key pair offered by ssh, or interrupting the remote
\* shell, ends the invocation with status 0; declining the key pair offered
\* by create does not end it: the launch goes on without a key pair and ends
\* with an error status only when a later step fails; declining the
\* dependency install ends it with status 1.
C13_Cancellation ==
    \A p \in Procs :
        /\ (DeclinedDelete(hist[p]) \/ DeclinedSshKey(hist[p]) \/ Interrupted(hist[p])) =>
                pc[p] = "done" /\ loc[p].exit = 0
        /\ DeclinedCreateKey(hist[p]) =>
                /\ pc[p] \in {"ami", "sg", "sg_create", "sg_auth", "run", "wait", "done"}
                /\ pc[p] = "done" => loc[p].exit = 0 \/ hist[p].failed # "none"
                /\ pc[p] # "done" => loc[p].key_name = NoKey
        /\ hist[p].depsDeclined =>
                pc[p] = "done" /\ loc[p].exit = 1 /\ hist[p].calls = {}
C13_Witness ==
    \E p \in Procs :
        /\ Interrupted(hist[p])
        /\ pc[p] = "done"
        /\ loc[p].exit = 0
C13_WitnessInstallDeclined ==
    \E p \in Procs : hist[p].depsDeclined /\ pc[p] = "done" /\ loc[p].exit = 1
C13_WitnessCreateGoesOn ==
    \E p \in Procs : DeclinedCreateKey(hist[p]) /\ hist[p].launched # NoId

\* create's key provisioning got as far as the registration and it was rejected
RegistrationFailed(h) == h.gate # "none" /\ h.key = "import_failed"
\* the step that failed comes before the launch request
BeforeLaunch(failed) == failed \notin {"none", "run_instances", "wait"}

\* C14 as stated (launch failure exit): in the launch workflow a failed
\* provider request, a rejected key-pair registration included, ends the
\* process with a non-zero status and no launch request follows it.
C14_EveryFailureExits ==
    \A p \in Procs :
        /\ hist[p].failed # "none" =>
                /\ pc[p] = "done"
                /\ loc[p].exit # 0
                /\ BeforeLaunch(hist[p].failed) => hist[p].runReqs = 0
        /\ RegistrationFailed(hist[p]) =>
                /\ pc[p] = "done"
                /\ loc[p].exit # 0
                /\ hist[p].runReqs = 0

\* C14 (launch failure exit, as the code has it): a failed lookup at the
\* gate, image lookup, group lookup, group creation, rule authorization,
\* launch request or wait ends the process with status 1 at once, so no
\* launch request follows it; a rejected key-pair registration does not: the
\* key files are removed and the launch goes on without a key pair, as it
\* goes on with the key pair after a duplicate name.
C14_LaunchFailureExit ==
    \A p \in Procs :
        /\ hist[p].failed # "none" =>
                /\ pc[p] = "done"
                /\ loc[p].exit = 1
                /\ BeforeLaunch(hist[p].failed) =>
                        hist[p].runReqs = 0 /\ hist[p].launched = NoId
                /\ hist[p].failed = "run_instances" =>
                        hist[p].runReqs = 1 /\ hist[p].launched = NoId
                /\ hist[p].failed = "wait" => hist[p].runReqs = 1
        /\ RegistrationFailed(hist[p]) =>
                /\ pc[p] \in {"ami", "sg", "sg_create", "sg_auth", "run", "wait", "done"}
                /\ pc[p] # "done" => loc[p].key_name = NoKey
                /\ pc[p] = "done" => loc[p].exit = 0 \/ hist[p].failed # "none"
                /\ hist[p].launched # NoId => instances[hist[p].launched].key = NoKey
        /\ (hist[p].gate # "none" /\ hist[p].key = "duplicate" /\ pc[p] # "done") =>
                loc[p].key_name = hist[p].keyName
C14_Witness ==
    \E p \in Procs :
        /\ hist[p].failed = "authorize_security_group_ingress"
        /\ pc[p] = "done"
        /\ loc[p].exit = 1
        /\ hist[p].runReqs = 0
C14_WitnessLaunchAfterRejection ==
    \E p \in Procs :
        /\ RegistrationFailed(hist[p])
        /\ hist[p].launched # NoId
        /\ pc[p] = "done"
        /\ loc[p].exit = 0

\* C15 (no rollback after a failed wait): when the launch request was
\* accepted and the wait for the running state fails, create exits with
\* status 1 having sent no terminate request and nothing else for the new
\* instance, which stays as the provider has it: pending, or running once
\* the provider has started it.
C15_NoRollback ==
    \A p \in Procs :
        hist[p].failed = "wait" =>
            /\ pc[p] = "done"
            /\ loc[p].exit = 1
            /\ hist[p].launched # NoId
            /\ hist[p].runReqs = 1
            /\ hist[p].termReqs = <<>>
            /\ "terminate_instances" \notin hist[p].calls
            /\ instances[hist[p].launched].type = ManagedType
            /\ instances[hist[p].launched].state \in {"pending", "running"}
C15_Witness ==
    \E p \in Procs :
        /\ hist[p].failed = "wait"
        /\ pc[p] = "done"
        /\ instances[hist[p].launched].state = "pending"

\* the instance an invocation launched is of the managed type and not terminated
LiveLaunch(h) ==
    /\ h.launched # NoId
    /\ instances[h.launched].type = ManagedType
    /\ instances[h.launched].state \in {"pending", "running", "stopping", "stopped"}

\* C16 (check-then-act race): two invocations of create that run at once
\* can leave two managed instances that are not terminated; when they do,
\* each of them found the account free at its gate, and the one that
\* launched second had made its gate query before the first one's instance
\* existed: the gate is the only guard and it is not atomic with the launch
\* request.
C16_CheckThenAct ==
    \A p \in Procs : \A q \in Procs \ {p} :
        (/\ LiveLaunch(hist[p])
         /\ LiveLaunch(hist[q])
         /\ hist[p].launched < hist[q].launched) =>
            /\ hist[p].gate = "free"
            /\ hist[q].gate = "free"
            /\ hist[q].gateLen < hist[p].launched
            /\ hist[p].runReqs = 1
            /\ hist[q].runReqs = 1
C16_Witness ==
    \E p \in Procs : \E q \in Procs \ {p} :
        /\ LiveLaunch(hist[p])
        /\ LiveLaunch(hist[q])
        /\ hist[p].launched # hist[q].launched
        /\ hist[p].gateLen = 0
        /\ hist[q].gateLen = 0
        /\ Len(instances) = 2
        /\ pc[p] = "done"
        /\ pc[q] = "done"

\* create was stopped by the policy gate
GateAborted(p) == hist[p].gate = "occupied" /\ hist[p].failed = "none"
\* what an invocation stopped by the gate has done, but for its lookups
NothingProvisioned(p) ==
    /\ pc[p] = "done"
    /\ loc[p].exit = 0
    /\ hist[p].key = "none"
    /\ hist[p].keyName = NoKey
    /\ hist[p].importReply = "none"
    /\ hist[p].sg = "none"
    /\ ~hist[p].sgCreateReq
    /\ hist[p].runReqs = 0
    /\ hist[p].launched = NoId

\* C17 as stated (gate abort): an invocation of create that the policy gate
\* stops generates no key file, registers no key pair, creates or modifies
\* no group, resolves no image and sends no launch request: its only
\* provider request is the gate's describe_instances.
C17_NoImageResolved ==
    \A p \in Procs :
        GateAborted(p) =>
            /\ NothingProvisioned(p)
            /\ hist[p].calls \subseteq {"describe_instances"}

\* C17 (gate abort, as the code has it): an invocation of create that the
\* policy gate stops generates no key file, registers no key pair, creates
\* or modifies no group and sends no launch request; launch_instance asks
\* for no image, and the one image lookup of the invocation is the banner's,
\* made by main() before the gate; the steps of the invocation leave the
\* provider's state and ~/.ssh as they were.
C17_GateAbortFrame ==
    /\ [](\A p \in Procs :
            GateAborted(p) =>
                /\ NothingProvisioned(p)
                /\ ~hist[p].resolved
                /\ hist[p].calls = {"describe_images", "describe_instances"})
    /\ [][\A p \in Procs :
            ((pc[p] = "gate" /\ GateAborted(p)') \/ (pc[p] # "gate" /\ pc'[p] = "gate")) =>
                UNCHANGED <<instances, groups, keyPairs, catalog, files, keygens>>]_vars
C17_Witness ==
    \E p \in Procs :
        /\ GateAborted(p)
        /\ pc[p] = "done"
        /\ files # {}
        /\ \E i \in 1..Len(instances) :
                instances[i].type = ManagedType /\ instances[i].state = "stopped"

\* C18 (access group always has the ssh rule): every group id that group
\* provisioning has returned, for a group this tool created, is the id of a
\* group with the TCP/22-from-anywhere ingress rule, also after calls that
\* failed between the creation and the rule.
C18_ReturnedGroupHasRule ==
    \A g \in sgReturned : groups[g].byTool => groups[g].ssh
\* a launch was made in a group the tool had created and left without the rule
C18_RulelessGroupReused ==
    \E p \in Procs :
        /\ hist[p].sg = "found"
        /\ hist[p].launched # NoId
        /\ \E g \in sgReturned : groups[g].byTool /\ ~groups[g].ssh

\* C19 (failed provisioning removes only its own files): after key
\* provisioning for a name has failed, every key file of that name that was
\* in ~/.ssh before the call is still there.
C19_OnlyOwnFilesRemoved ==
    \A p \in Procs :
        hist[p].key \in {"keygen_failed", "import_failed", "chmod_failed"} =>
            \A kind \in hist[p].filesBefore : FileExists(files, hist[p].keyName, kind)
\* the default private key was there, nothing was generated, and it is gone
C19_PreexistingKeyRemoved ==
    \E p \in Procs :
        /\ hist[p].key = "keygen_failed"
        /\ hist[p].keyName = DefaultKey
        /\ hist[p].filesBefore = {"priv"}
        /\ ~FileExists(files, DefaultKey, "priv")
        /\ keygens = 0

====
